---- MODULE Spec2Model ----
(***************************************************************************)
(* Model of the HTTP JSON-RPC transport of src/transports/http.rs:         *)
(* HttpTransport with its shared AtomicU64 identifier counter, prepare,    *)
(* execute, execute_batch and the private send_request, run by several     *)
(* concurrent callers against a server that may answer in any way.         *)
(***************************************************************************)
EXTENDS Integers, Sequences, FiniteSets, TLC

(***************************************************************************)
(* Bounds of the model.                                                    *)
(***************************************************************************)
NumTasks == 2
MaxPrepares == 3
MaxBatch == 2
MaxOps == 2
MaxHandles == 3

Tasks == 1..NumTasks

(***************************************************************************)
(* u64 arithmetic.  TLC's integers are 32 bits wide, so a u64 is kept as   *)
(* NumLimbs limbs of 16 bits (base LimbBase), least significant first.     *)
(***************************************************************************)
NumLimbs == 4
LimbBase == 65536

U64 == [1..NumLimbs -> 0..(LimbBase - 1)]

\* The u64 of a small natural number (n < LimbBase^2).
U64FromNat(n) ==
    [i \in 1..NumLimbs |->
        IF i = 1 THEN n % LimbBase
        ELSE IF i = 2 THEN (n \div LimbBase) % LimbBase
        ELSE 0]

U64Zero == U64FromNat(0)
U64One == U64FromNat(1)
U64Max == [i \in 1..NumLimbs |-> LimbBase - 1]

RECURSIVE AddCarry(_, _, _)
AddCarry(x, i, c) ==
    IF i > NumLimbs \/ c = 0
    THEN x
    ELSE LET s == x[i] + c
         IN  AddCarry([x EXCEPT ![i] = s % LimbBase], i + 1, s \div LimbBase)

\* u64::wrapping_add(x, n) for 0 <= n < LimbBase: the carry out of the top
\* limb is dropped.
WrappingAdd(x, n) == AddCarry(x, 1, n)

RECURSIVE LtFrom(_, _, _)
LtFrom(a, b, i) ==
    IF i = 0 THEN FALSE
    ELSE IF a[i] # b[i] THEN a[i] < b[i]
    ELSE LtFrom(a, b, i - 1)

U64Lt(a, b) == LtFrom(a, b, NumLimbs)
U64Le(a, b) == a = b \/ U64Lt(a, b)

(***************************************************************************)
(* jsonrpc_types values as the transport uses them.                        *)
(***************************************************************************)
\* Option<Params>: None, or Some(Params::Array(v)).
NoParams == [some |-> FALSE]
SomeParams(v) == [some |-> TRUE, array |-> v]

\* What the callers pass to prepare: ("foo", None) and ("bar", Some([])).
PrepareInputs == {<<"foo", NoParams>>, <<"bar", SomeParams(<<>>)>>}

\* Id::Num(n), and the null identifier of a reply to an unparseable call.
IdNum(n) == [num |-> n]
IdNull == [null |-> TRUE]

\* fetch_add whose store is lost: what a separate load and store of two
\* racing callers leaves behind.
fetch_add_lost_update(cur) == [prev |-> cur, new |-> cur]

\* fetch_add that hands out the incremented value instead of the previous one.
fetch_add_returns_new(cur) == [prev |-> WrappingAdd(cur, 1), new |-> WrappingAdd(cur, 1)]

\* fetch_add on a counter only one limb wide.
fetch_add_one_limb(cur) ==
    [prev |-> cur, new |-> [cur EXCEPT ![1] = (cur[1] + 1) % LimbBase]]

\* fetch_sub in place of fetch_add, on the low limb.
fetch_sub(cur) ==
    [prev |-> cur, new |-> [cur EXCEPT ![1] = (cur[1] + LimbBase - 1) % LimbBase]]

\* u64 fetch_add(1): the previous value is returned, the wrapped sum stored.
fetch_add(cur) == [prev |-> cur, new |-> WrappingAdd(cur, 1)]

\* A MethodCall that takes an empty parameter list for no parameters.
MethodCall_without_empty_params(method, params, n) ==
    [jsonrpc |-> "2.0", method |-> method,
     params |-> IF params.some /\ params.array = <<>> THEN NoParams ELSE params,
     id |-> IdNum(n)]

\* The MethodCall that prepare builds around the fetched identifier.
MethodCall(method, params, n) ==
    [jsonrpc |-> "2.0", method |-> method, params |-> params, id |-> IdNum(n)]

\* MethodCallRequest::Single(call) and MethodCallRequest::Batch(calls).
RequestSingle(call) == [variant |-> "Single", calls |-> <<call>>]
RequestBatch(calls) == [variant |-> "Batch", calls |-> calls]

\* The JSON object of one call: the params key is left out when there are
\* no parameters.
CallToJson(call) ==
    IF call.params.some
    THEN [jsonrpc |-> call.jsonrpc, method |-> call.method,
          params |-> call.params.array, id |-> call.id]
    ELSE [jsonrpc |-> call.jsonrpc, method |-> call.method, id |-> call.id]

\* The body that .json(&request) puts on the wire: one object for Single,
\* an array of objects, in the order of the vector, for Batch.
RequestToJson(request) ==
    IF request.variant = "Single"
    THEN [shape |-> "object", items |-> <<CallToJson(request.calls[1])>>]
    ELSE [shape |-> "array",
          items |-> [i \in 1..Len(request.calls) |-> CallToJson(request.calls[i])]]

(***************************************************************************)
(* Replies.  A reply body is a JSON object, a JSON array or anything else; *)
(* an item of it is a success object, an error object or anything else.    *)
(***************************************************************************)
SuccessJson(i, v) == [jsonrpc |-> "2.0", id |-> i, result |-> v]
FailureJson(i, code) == [jsonrpc |-> "2.0", id |-> i, error |-> [code |-> code]]
JunkJson == [raw |-> "junk"]
JunkBody == [shape |-> "junk", items |-> <<>>]

IsOutputJson(j) ==
    /\ "jsonrpc" \in DOMAIN j
    /\ "id" \in DOMAIN j
    /\ ("result" \in DOMAIN j) # ("error" \in DOMAIN j)

\* Output::Success / Output::Failure decoded from one item.
DecodeOutput(j) ==
    IF "result" \in DOMAIN j
    THEN [kind |-> "Success", result |-> j.result, id |-> j.id]
    ELSE [kind |-> "Failure", error |-> j.error, id |-> j.id]

Ok(response) == [tag |-> "Ok", response |-> response]
Err(kind) == [tag |-> "Err", error |-> kind]

\* The crate's error made by `?` from a reqwest::Error: a transport error,
\* or a decode error when reqwest could not decode the body.
ErrorFrom(reqwestKind) ==
    IF reqwestKind = "decode" THEN "Decode" ELSE "Transport"
NoResult == [tag |-> "None"]

ResponseSingle(output) == [variant |-> "Single", outputs |-> <<output>>]
ResponseBatch(outputs) == [variant |-> "Batch", outputs |-> outputs]

\* response.json::<Response>(): an object decodes to Response::Single, an
\* array of objects to Response::Batch, anything else is reqwest's decode
\* error.
DecodeResponse(body) ==
    IF body.shape = "object" /\ IsOutputJson(body.items[1])
    THEN Ok(ResponseSingle(DecodeOutput(body.items[1])))
    ELSE IF body.shape = "array"
            /\ \A i \in 1..Len(body.items) : IsOutputJson(body.items[i])
    THEN Ok(ResponseBatch([i \in 1..Len(body.items) |-> DecodeOutput(body.items[i])]))
    ELSE Err("decode")

\* Returning the first Output of a decoded batch as a single Output.
returns_first_of_batch(decoded) ==
    IF decoded.tag = "Ok" /\ decoded.response.variant = "Batch"
       /\ Len(decoded.response.outputs) >= 1
    THEN Ok(ResponseSingle(decoded.response.outputs[1]))
    ELSE IF decoded.tag = "Err" THEN Err(ErrorFrom(decoded.error)) ELSE decoded

\* Raising a protocol error of the reply as an error of the call.
returns_error_on_failure_output(decoded) ==
    IF decoded.tag = "Ok"
       /\ \E i \in 1..Len(decoded.response.outputs) :
              decoded.response.outputs[i].kind = "Failure"
    THEN Err("Rpc")
    ELSE IF decoded.tag = "Err" THEN Err(ErrorFrom(decoded.error)) ELSE decoded

\* Answering an undecodable reply with an empty batch.
returns_default_on_decode_error(decoded) ==
    IF decoded.tag = "Err" THEN Ok(ResponseBatch(<<>>)) ELSE decoded

\* Returning the Outputs of a batch with the first two put in the order of
\* their identifiers.
returns_sorted_by_id(decoded) ==
    IF decoded.tag = "Err" THEN Err(ErrorFrom(decoded.error))
    ELSE LET o == decoded.response.outputs
         IN  IF /\ decoded.response.variant = "Batch" /\ Len(o) >= 2
                /\ "num" \in DOMAIN o[1].id /\ "num" \in DOMAIN o[2].id
                /\ U64Lt(o[2].id.num, o[1].id.num)
             THEN Ok(ResponseBatch([i \in 1..Len(o) |->
                        IF i = 1 THEN o[2] ELSE IF i = 2 THEN o[1] ELSE o[i]]))
             ELSE decoded

\* Ok(response.json().await?): a decode error is returned by `?`, a decoded
\* Response is returned as it is.
send_request_returns(decoded) ==
    IF decoded.tag = "Err" THEN Err(ErrorFrom(decoded.error)) ELSE Ok(decoded.response)

(***************************************************************************)
(* The server.  The test server of the source echoes each identifier with  *)
(* the result "x" for foo and "y" for bar; a server in general may answer  *)
(* a request in any of the ways below.                                     *)
(***************************************************************************)
ResultOf(method) == IF method = "foo" THEN "x" ELSE "y"

EchoItems(items) ==
    [i \in 1..Len(items) |-> SuccessJson(items[i].id, ResultOf(items[i].method))]

Reverse(s) == [i \in 1..Len(s) |-> s[Len(s) + 1 - i]]

ServerBehaviours ==
    {"echo", "errors", "reversed", "parse_error", "array_for_single",
     "malformed", "bad_item", "wrong_id", "drop", "unparsed_item"}

ServerReply(body, behaviour) ==
    LET echoed == EchoItems(body.items)
    IN  CASE behaviour = "echo" ->
               [shape |-> body.shape, items |-> echoed]
          [] behaviour = "errors" ->
               [shape |-> body.shape,
                items |-> [i \in 1..Len(echoed) |->
                    IF i = 1 THEN FailureJson(body.items[i].id, "MethodNotFound")
                    ELSE echoed[i]]]
          [] behaviour = "reversed" ->
               [shape |-> body.shape, items |-> Reverse(echoed)]
          [] behaviour = "parse_error" ->
               [shape |-> "object", items |-> <<FailureJson(IdNull, "ParseError")>>]
          [] behaviour = "array_for_single" ->
               [shape |-> "array", items |-> echoed]
          [] behaviour = "malformed" ->
               JunkBody
          [] behaviour = "bad_item" ->
               [shape |-> "array", items |-> Append(echoed, JunkJson)]
          [] behaviour = "wrong_id" ->
               [shape |-> body.shape,
                items |-> [i \in 1..Len(echoed) |->
                    SuccessJson(IdNum(U64Zero), echoed[i].result)]]
          [] behaviour = "drop" ->
               [shape |-> "array",
                items |-> IF echoed = <<>> THEN <<>> ELSE Tail(echoed)]
          [] behaviour = "unparsed_item" ->
               [shape |-> "array",
                items |-> [i \in 1..Len(echoed) |->
                    IF i = 1 THEN FailureJson(IdNull, "InvalidRequest")
                    ELSE echoed[i]]]

\* The answers that differ from the echo for this request.
Applies(behaviour, body) ==
    CASE behaviour = "array_for_single" -> body.shape = "object"
      [] behaviour = "reversed" -> Len(body.items) >= 2
      [] behaviour \in {"errors", "wrong_id", "drop"} -> Len(body.items) >= 1
      [] behaviour = "unparsed_item" -> body.shape = "array" /\ Len(body.items) >= 1
      [] OTHER -> TRUE

(***************************************************************************)
(* State.                                                                  *)
(***************************************************************************)
VARIABLES
    id,         \* HttpTransport.id, the shared AtomicU64
    pc,         \* pc[t]: where caller t stands: "idle", "send" or "body"
    prepared,   \* prepared[t]: the MethodCalls prepare returned to caller t
    op,         \* op[t]: the execute / execute_batch call t made last
    sent,       \* sent[t]: the bodies that call handed to the HTTP client
    net,        \* net[t]: the reply body that arrived on t's connection
    served,     \* served[t]: the kind of answer that reached caller t
    result,     \* result[t]: what the call returned
    nops,       \* number of execute / execute_batch calls made
    url,        \* HttpTransport.url
    client,     \* HttpTransport.client: what build configured the client with
    builder,    \* the HttpTransportBuilder being configured
    handles,    \* further HttpTransport values, built or cloned
    arcs        \* the Arc<AtomicU64> counters these values point to

\* The fields of the transport besides the counter, the builder, and the
\* further transports: what prepare and the round trips leave alone.
construction == <<url, client, builder, handles, arcs>>

vars == <<id, pc, prepared, op, sent, net, served, result, nops,
          url, client, builder, handles, arcs>>

NoOp == [kind |-> "none", calls |-> <<>>]
NoBody == [shape |-> "none", items |-> <<>>]

RECURSIVE SumLen(_, _)
SumLen(f, S) ==
    IF S = {} THEN 0
    ELSE LET t == CHOOSE x \in S : TRUE
         IN  Len(f[t]) + SumLen(f, S \ {t})

TotalPrepared == SumLen(prepared, Tasks)

\* HttpTransportBuilder::build: the counter starts at 1.
InitialId == U64One

InitRest ==
    /\ pc = [t \in Tasks |-> "idle"]
    /\ prepared = [t \in Tasks |-> <<>>]
    /\ op = [t \in Tasks |-> NoOp]
    /\ sent = [t \in Tasks |-> <<>>]
    /\ net = [t \in Tasks |-> NoBody]
    /\ served = [t \in Tasks |-> "none"]
    /\ result = [t \in Tasks |-> NoResult]
    /\ nops = 0

(***************************************************************************)
(* Text.  A string is the sequence of its characters; AsciiChars lists the *)
(* printable ASCII characters from the space (32) to the tilde (126); the   *)
(* grave accent (96), which a string of this notation cannot hold, is      *)
(* written out.                                                            *)
(***************************************************************************)
AsciiChars ==
  <<
     " ", "!", "\"", "#", "$", "%", "&", "'", "(", ")", "*", "+", ",",
     "-", ".", "/", "0", "1", "2", "3", "4", "5", "6", "7", "8", "9",
     ":", ";", "<", "=", ">", "?", "@", "A", "B", "C", "D", "E", "F",
     "G", "H", "I", "J", "K", "L", "M", "N", "O", "P", "Q", "R", "S",
     "T", "U", "V", "W", "X", "Y", "Z", "[", "\\", "]", "^", "_", "(grave)",
     "a", "b", "c", "d", "e", "f", "g", "h", "i", "j", "k", "l", "m",
     "n", "o", "p", "q", "r", "s", "t", "u", "v", "w", "x", "y", "z",
     "{", "|", "}", "~"
  >>

\* The byte of an ASCII character.
Ord(c) == 31 + (CHOOSE i \in 1..Len(AsciiChars) : AsciiChars[i] = c)

Bytes(text) == [i \in 1..Len(text) |-> Ord(text[i])]

Base64Alphabet ==
  <<
     "A", "B", "C", "D", "E", "F", "G", "H", "I", "J", "K", "L", "M",
     "N", "O", "P", "Q", "R", "S", "T", "U", "V", "W", "X", "Y", "Z",
     "a", "b", "c", "d", "e", "f", "g", "h", "i", "j", "k", "l", "m",
     "n", "o", "p", "q", "r", "s", "t", "u", "v", "w", "x", "y", "z",
     "0", "1", "2", "3", "4", "5", "6", "7", "8", "9", "+", "/"
  >>

\* The character of a 6-bit value.
Sextet(v) == Base64Alphabet[v + 1]

\* base64::encode of a sequence of bytes: three bytes give four characters,
\* a last group of one or two bytes is padded with "=".
RECURSIVE Base64(_)
Base64(b) ==
    IF Len(b) = 0 THEN <<>>
    ELSE IF Len(b) = 1
    THEN <<Sextet(b[1] \div 4), Sextet((b[1] % 4) * 16), "=", "=">>
    ELSE IF Len(b) = 2
    THEN <<Sextet(b[1] \div 4), Sextet((b[1] % 4) * 16 + b[2] \div 16),
           Sextet((b[2] % 16) * 4), "=">>
    ELSE <<Sextet(b[1] \div 4), Sextet((b[1] % 4) * 16 + b[2] \div 16),
           Sextet((b[2] % 16) * 4 + b[3] \div 64), Sextet(b[3] % 64)>>
         \o Base64(SubSeq(b, 4, Len(b)))

base64_encode(text) == Base64(Bytes(text))

(***************************************************************************)
(* HttpTransportBuilder.                                                   *)
(***************************************************************************)
None == [some |-> FALSE]
Some(v) == [some |-> TRUE, value |-> v]

\* HttpTransportBuilder::new.
new ==
    [headers |-> {},
     timeout |-> None,
     connect_timeout |-> None,
     pool_idle_timeout |-> Some(90),
     pool_max_idle_per_host |-> "usize::MAX",
     tcp_keepalive |-> None,
     tcp_nodelay |-> FALSE,
     https_only |-> FALSE]

\* HeaderMap::insert: the value replaces the one the name had.
insert(headers, name, value) ==
    {h \in headers : h[1] # name} \cup {<<name, value>>}

\* HttpTransportBuilder::header.
header(self, name, value) ==
    [self EXCEPT !.headers = insert(self.headers, name, value)]

\* basic_auth that leaves the colon out when there is no password.
basic_auth_without_colon(self, username, password) ==
    header(self, "authorization",
           <<"B", "a", "s", "i", "c", " ">> \o
           (IF password.some
            THEN base64_encode(username \o <<":">> \o password.value)
            ELSE base64_encode(username)))

\* HttpTransportBuilder::basic_auth.
basic_auth(self, username, password) ==
    LET auth == IF password.some
                THEN base64_encode(username \o <<":">> \o password.value)
                ELSE base64_encode(username \o <<":">>)
    IN  header(self, "authorization", <<"B", "a", "s", "i", "c", " ">> \o auth)

\* HttpTransportBuilder::bearer_auth.
bearer_auth(self, token) ==
    header(self, "authorization", <<"B", "e", "a", "r", "e", "r", " ">> \o token)

\* HttpTransportBuilder::tcp_nodelay.
tcp_nodelay(self, enabled) == [self EXCEPT !.tcp_nodelay = enabled]

\* What build passes to reqwest::Client::builder().
ClientOf(self) ==
    [default_headers |-> self.headers,
     pool_idle_timeout |-> self.pool_idle_timeout,
     pool_max_idle_per_host |-> self.pool_max_idle_per_host,
     tcp_keepalive |-> self.tcp_keepalive,
     tcp_nodelay |-> self.tcp_nodelay,
     https_only |-> self.https_only,
     timeout |-> self.timeout,
     connect_timeout |-> self.connect_timeout]

\* The value of the header, if the map has it.
HeaderValue(headers, name) ==
    IF \E h \in headers : h[1] = name
    THEN Some((CHOOSE h \in headers : h[1] = name)[2])
    ELSE None

\* What the builder's methods are called with.
Usernames == {<<"u", "s", "e", "r", "n", "a", "m", "e">>, <<>>, <<"u", "s">>}
Passwords == {None, Some(<<"p", "a", "s", "s", "w", "o", "r", "d">>), Some(<<>>), Some(<<"p">>)}
Tokens == {<<"H", "o", "l", "d", " ", "m", "y", " ", "b", "e", "a", "r">>}
Urls == {"http://127.0.0.1:8080/v2_no_params",
         "http://127.0.0.1:8080/v2_batch"}

TestUrl == "http://127.0.0.1:8080/v2_no_params"
NoUrl == "(none)"
NoClient == [built |-> FALSE]

\* A builder fresh from HttpTransportBuilder::new(); called remembers which
\* of its methods have been called, consumed that build has taken it.
FreshBuilder == [config |-> new, called |-> {}, consumed |-> FALSE]

CallBasicAuth(username, password) ==
    /\ ~builder.consumed
    /\ builder' = [builder EXCEPT
            !.config = basic_auth(@, username, password),
            !.called = @ \cup {"basic_auth"}]
    /\ UNCHANGED <<id, pc, prepared, op, sent, net, served, result, nops,
                   url, client, handles, arcs>>

CallBearerAuth(token) ==
    /\ ~builder.consumed
    /\ builder' = [builder EXCEPT
            !.config = bearer_auth(@, token),
            !.called = @ \cup {"bearer_auth"}]
    /\ UNCHANGED <<id, pc, prepared, op, sent, net, served, result, nops,
                   url, client, handles, arcs>>

CallTcpNodelay(enabled) ==
    /\ ~builder.consumed
    /\ builder' = [builder EXCEPT
            !.config = tcp_nodelay(@, enabled),
            !.called = @ \cup {"tcp_nodelay"}]
    /\ UNCHANGED <<id, pc, prepared, op, sent, net, served, result, nops,
                   url, client, handles, arcs>>

\* HttpTransportBuilder::build: the transport gets the url, a counter at 1
\* and the client configured from the builder, which is consumed.
build(u) ==
    /\ ~builder.consumed
    /\ url' = u
    /\ id' = InitialId
    /\ client' = ClientOf(builder.config)
    /\ builder' = [builder EXCEPT !.consumed = TRUE]
    /\ UNCHANGED <<pc, prepared, op, sent, net, served, result, nops,
                   handles, arcs>>

\* HttpTransport::new(url): HttpTransportBuilder::new().build(url).
InitBuilt ==
    /\ url = TestUrl
    /\ client = ClientOf(new)
    /\ builder = [FreshBuilder EXCEPT !.consumed = TRUE]

\* No further transport has been built or cloned.
InitAlone ==
    /\ handles = <<>>
    /\ arcs = <<>>

Init ==
    /\ id = InitialId
    /\ InitRest
    /\ InitBuilt
    /\ InitAlone

\* prepare behind a lock that every round trip holds until it returns.
prepare_locked(t, method, params) ==
    /\ \A u \in Tasks : pc[u] = "idle"
    /\ TotalPrepared < MaxPrepares
    /\ LET r == fetch_add(id)
       IN  /\ id' = r.new
           /\ prepared' = [prepared EXCEPT ![t] = Append(@, MethodCall(method, params, r.prev))]
    /\ UNCHANGED <<pc, op, sent, net, served, result, nops>>
    /\ UNCHANGED construction

(***************************************************************************)
(* Transport::prepare.                                                     *)
(***************************************************************************)
prepare(t, method, params) ==
    /\ pc[t] = "idle"
    /\ TotalPrepared < MaxPrepares
    /\ LET r == fetch_add(id)
       IN  /\ id' = r.new
           /\ prepared' = [prepared EXCEPT ![t] = Append(@, MethodCall(method, params, r.prev))]
    /\ UNCHANGED <<pc, op, sent, net, served, result, nops>>
    /\ UNCHANGED construction

(***************************************************************************)
(* HttpTransport::send_request, up to its first await: the request is      *)
(* serialized and handed to the HTTP client once.                          *)
(***************************************************************************)
send_request(t, request) ==
    /\ sent' = [sent EXCEPT ![t] = <<RequestToJson(request)>>]
    /\ net' = [net EXCEPT ![t] = NoBody]
    /\ served' = [served EXCEPT ![t] = "none"]
    /\ result' = [result EXCEPT ![t] = NoResult]
    /\ pc' = [pc EXCEPT ![t] = "send"]

\* execute that gives the call a fresh identifier before it is sent.
execute_with_fresh_id(t, call) ==
    /\ pc[t] = "idle"
    /\ nops < MaxOps
    /\ op' = [op EXCEPT ![t] = [kind |-> "execute", calls |-> <<call>>]]
    /\ nops' = nops + 1
    /\ LET r == fetch_add(id)
       IN  /\ id' = r.new
           /\ send_request(t, RequestSingle([call EXCEPT !.id = IdNum(r.prev)]))
    /\ UNCHANGED prepared
    /\ UNCHANGED construction

\* Transport::execute.
execute(t, call) ==
    /\ pc[t] = "idle"
    /\ nops < MaxOps
    /\ op' = [op EXCEPT ![t] = [kind |-> "execute", calls |-> <<call>>]]
    /\ nops' = nops + 1
    /\ send_request(t, RequestSingle(call))
    /\ UNCHANGED <<id, prepared>>
    /\ UNCHANGED construction

\* Collecting the calls back to front.
collect_reversed(calls) == [i \in 1..Len(calls) |-> calls[Len(calls) + 1 - i]]

\* Collecting the calls after the first.
collect_skips_first(calls) == IF calls = <<>> THEN <<>> ELSE Tail(calls)

\* calls.into_iter().collect(): the vector of the items in iteration order.
collect(calls) == calls

\* BatchTransport::execute_batch.
execute_batch(t, calls) ==
    /\ pc[t] = "idle"
    /\ nops < MaxOps
    /\ op' = [op EXCEPT ![t] = [kind |-> "execute_batch", calls |-> calls]]
    /\ nops' = nops + 1
    /\ send_request(t, RequestBatch(collect(calls)))
    /\ UNCHANGED <<id, prepared>>
    /\ UNCHANGED construction

\* A failed send answered with an empty success.
SendFailsSwallowed(t) ==
    /\ pc[t] = "send"
    /\ result' = [result EXCEPT ![t] = Ok(ResponseBatch(<<>>))]
    /\ pc' = [pc EXCEPT ![t] = "idle"]
    /\ UNCHANGED <<id, prepared, op, sent, net, served, nops>>
    /\ UNCHANGED construction

\* A failed send handed to the HTTP client once more.
SendFailsRetried(t) ==
    /\ pc[t] = "send"
    /\ sent' = [sent EXCEPT ![t] = Append(@, @[1])]
    /\ UNCHANGED <<id, pc, prepared, op, net, served, result, nops>>
    /\ UNCHANGED construction

\* A failed send that starts the identifier counter afresh.
SendFailsResetsCounter(t) ==
    /\ pc[t] = "send"
    /\ result' = [result EXCEPT ![t] = Err(ErrorFrom("request"))]
    /\ pc' = [pc EXCEPT ![t] = "idle"]
    /\ id' = InitialId
    /\ UNCHANGED <<prepared, op, sent, net, served, nops>>
    /\ UNCHANGED construction

\* builder.send().await fails: `?` returns the error at once.
SendFails(t) ==
    /\ pc[t] = "send"
    /\ result' = [result EXCEPT ![t] = Err(ErrorFrom("request"))]
    /\ pc' = [pc EXCEPT ![t] = "idle"]
    /\ UNCHANGED <<id, prepared, op, sent, net, served, nops>>
    /\ UNCHANGED construction

\* builder.send().await succeeds: the server has answered the request on
\* this caller's connection.
ServerReplies(t, behaviour) ==
    /\ pc[t] = "send"
    /\ Applies(behaviour, sent[t][Len(sent[t])])
    /\ net' = [net EXCEPT ![t] = ServerReply(sent[t][Len(sent[t])], behaviour)]
    /\ served' = [served EXCEPT ![t] = behaviour]
    /\ pc' = [pc EXCEPT ![t] = "body"]
    /\ UNCHANGED <<id, prepared, op, sent, result, nops>>
    /\ UNCHANGED construction

\* response.json().await: the body is read and decoded; `?` returns a
\* decode error, otherwise the decoded Response is returned as it is.
ReceiveReply(t) ==
    /\ pc[t] = "body"
    /\ result' = [result EXCEPT ![t] = send_request_returns(DecodeResponse(net[t]))]
    /\ pc' = [pc EXCEPT ![t] = "idle"]
    /\ UNCHANGED <<id, prepared, op, sent, net, served, nops>>
    /\ UNCHANGED construction

\* response.json().await fails while the body is read: the connection broke
\* and the reply never reached the caller.
ReceiveFails(t) ==
    /\ pc[t] = "body"
    /\ result' = [result EXCEPT ![t] = Err(ErrorFrom("body"))]
    /\ net' = [net EXCEPT ![t] = NoBody]
    /\ served' = [served EXCEPT ![t] = "none"]
    /\ pc' = [pc EXCEPT ![t] = "idle"]
    /\ UNCHANGED <<id, prepared, op, sent, nops>>
    /\ UNCHANGED construction

\* The sequences of at most MaxBatch different calls out of s, in any order.
Range(s) == {s[i] : i \in 1..Len(s)}

BatchesOf(s) ==
    {b \in UNION {[1..n -> Range(s)] : n \in 0..MaxBatch} :
        \A i, j \in 1..Len(b) : i # j => b[i] # b[j]}

Next ==
    \/ \E t \in Tasks, in \in PrepareInputs : prepare(t, in[1], in[2])
    \/ \E t \in Tasks : \E c \in Range(prepared[t]) : execute(t, c)
    \/ \E t \in Tasks : \E b \in BatchesOf(prepared[t]) : execute_batch(t, b)
    \/ \E t \in Tasks : SendFails(t)
    \/ \E t \in Tasks, b \in ServerBehaviours : ServerReplies(t, b)
    \/ \E t \in Tasks : ReceiveReply(t)
    \/ \E t \in Tasks : ReceiveFails(t)

Spec == Init /\ [][Next]_vars

\* prepare alone, over every method with no, empty and non-empty parameters.
Methods == {"foo", "bar"}
ParamsChoices == {NoParams, SomeParams(<<>>), SomeParams(<<"a">>)}
AllPrepareInputs == Methods \X ParamsChoices

NextPrepare ==
    \E t \in Tasks, in \in AllPrepareInputs : prepare(t, in[1], in[2])

SpecPrepare == Init /\ [][NextPrepare]_vars

\* The builder from new() to build: no transport exists before build, its
\* fields are unset.
InitBuilder ==
    /\ builder = FreshBuilder
    /\ url = NoUrl
    /\ client = NoClient
    /\ id = U64Zero
    /\ InitRest
    /\ InitAlone

NextBuilder ==
    \/ \E u \in Usernames, p \in Passwords : CallBasicAuth(u, p)
    \/ \E k \in Tokens : CallBearerAuth(k)
    \/ \E e \in BOOLEAN : CallTcpNodelay(e)
    \/ \E u \in Urls : build(u)

SpecBuilder == InitBuilder /\ [][NextBuilder]_vars

(***************************************************************************)
(* Several HttpTransport values.  arcs holds the Arc<AtomicU64> counters   *)
(* that exist; a value of HttpTransport holds its url, its client and, in  *)
(* id, the index of the counter its Arc points to.  root remembers the     *)
(* value it was built as or cloned from, calls what prepare returned on    *)
(* it.                                                                     *)
(***************************************************************************)
IssuedOn == UNION {{<<h, i>> : i \in DOMAIN handles[h].calls} : h \in DOMAIN handles}

\* HttpTransport::new(url): build allocates a counter of its own, at 1.
NewTransport(u) ==
    /\ Len(handles) < MaxHandles
    /\ arcs' = Append(arcs, InitialId)
    /\ handles' = Append(handles,
            [url |-> u, client |-> ClientOf(new), id |-> Len(arcs) + 1,
             root |-> Len(handles) + 1, calls |-> <<>>])
    /\ UNCHANGED <<id, pc, prepared, op, sent, net, served, result, nops,
                   url, client, builder>>

\* A clone that copies the counter's value into a counter of its own.
clone_copies_counter(h) ==
    /\ Len(handles) < MaxHandles
    /\ arcs' = Append(arcs, arcs[handles[h].id])
    /\ handles' = Append(handles,
            [handles[h] EXCEPT !.id = Len(arcs) + 1, !.calls = <<>>])
    /\ UNCHANGED <<id, pc, prepared, op, sent, net, served, result, nops,
                   url, client, builder>>

\* #[derive(Clone)]: every field is cloned, and the clone of an Arc points
\* to the same counter.
clone(h) ==
    /\ Len(handles) < MaxHandles
    /\ handles' = Append(handles, [handles[h] EXCEPT !.calls = <<>>])
    /\ UNCHANGED arcs
    /\ UNCHANGED <<id, pc, prepared, op, sent, net, served, result, nops,
                   url, client, builder>>

\* Transport::prepare on one of the values.
PrepareOn(h, method, params) ==
    /\ Cardinality(IssuedOn) < MaxPrepares
    /\ LET r == fetch_add(arcs[handles[h].id])
       IN  /\ arcs' = [arcs EXCEPT ![handles[h].id] = r.new]
           /\ handles' = [handles EXCEPT
                  ![h].calls = Append(@, MethodCall(method, params, r.prev))]
    /\ UNCHANGED <<id, pc, prepared, op, sent, net, served, result, nops,
                   url, client, builder>>

NextInstances ==
    \/ \E u \in Urls : NewTransport(u)
    \/ \E h \in DOMAIN handles : clone(h)
    \/ \E h \in DOMAIN handles, in \in PrepareInputs : PrepareOn(h, in[1], in[2])

SpecInstances == Init /\ [][NextInstances]_vars

\* The counter at values a long-lived transport reaches: just below a limb
\* boundary, and just below the largest u64.
U64MaxMinusOne == [i \in 1..NumLimbs |-> IF i = 1 THEN LimbBase - 2 ELSE LimbBase - 1]
CounterSamples == {U64FromNat(LimbBase - 1), U64MaxMinusOne}

InitAnyCounter ==
    /\ id \in CounterSamples
    /\ InitRest
    /\ InitBuilt
    /\ InitAlone

SpecAnyCounter == InitAnyCounter /\ [][Next]_vars

(***************************************************************************)
(* Properties of the identifier counter.                                   *)
(***************************************************************************)
\* Where the calls handed out by prepare are: caller and position.
Slots == {<<t, i>> \in Tasks \X (1..MaxPrepares) : i <= Len(prepared[t])}

IssuedIds == {prepared[s[1]][s[2]].id : s \in Slots}

\* C1: in every interleaving of prepare calls of all callers, mixed with
\* execute and execute_batch calls, the identifiers of the returned calls are
\* pairwise distinct and each is at least 1.
C1_IdentifiersDistinct ==
    /\ \A a, b \in Slots :
          a # b => prepared[a[1]][a[2]].id # prepared[b[1]][b[2]].id
    /\ \A a \in Slots : U64Le(U64One, prepared[a[1]][a[2]].id.num)

\* Both callers hold calls, MaxPrepares were prepared and a round trip of one
\* caller was under way meanwhile.
C1_Witness ==
    /\ \A t \in Tasks : Len(prepared[t]) >= 1
    /\ TotalPrepared = MaxPrepares
    /\ \E t \in Tasks : pc[t] # "idle"

\* C2: the first identifier issued is 1, and after N prepare calls the set
\* of identifiers issued is exactly {1..N} and the counter holds N + 1.
C2_IdentifiersAreOneToN ==
    /\ IssuedIds = {IdNum(U64FromNat(k)) : k \in 1..TotalPrepared}
    /\ id = U64FromNat(TotalPrepared + 1)

C2_Witness ==
    /\ TotalPrepared = MaxPrepares
    /\ \A t \in Tasks : Len(prepared[t]) >= 1
    /\ IdNum(U64One) \in IssuedIds

\* C3 as stated: at every step of any sequence of operations, whatever value
\* the counter holds, its value after the step is at least its value before.
C3_NeverDecreases == [][U64Le(id, id')]_vars

\* C3: the counter never decreases, except that a prepare at the largest
\* u64 wraps it to 0; every other step leaves it or adds one.
C3_NeverDecreasesUntilWrap ==
    [][\/ id' = id
       \/ U64Lt(id, id') /\ id' = WrappingAdd(id, 1)
       \/ id = U64Max /\ id' = U64Zero]_vars

\* The counter wrapped: the largest u64 was issued and the counter is below it.
C3_Witness ==
    /\ IdNum(U64Max) \in IssuedIds
    /\ U64Lt(id, U64Max)

(***************************************************************************)
(* Properties of execute and execute_batch.                                *)
(***************************************************************************)
\* Caller t's call has returned.
Completed(t) == pc[t] = "idle" /\ op[t].kind # "none"

\* A reply reached caller t.
ReplyArrived(t) == served[t] # "none"

\* The body is a JSON-RPC object or an array of JSON-RPC objects.
WellFormed(body) ==
    /\ body.shape \in {"object", "array"}
    /\ \A i \in 1..Len(body.items) : "raw" \notin DOMAIN body.items[i]

\* The JSON object j carries the call c: version, method, params, identifier.
SameCall(j, c) ==
    /\ j.jsonrpc = c.jsonrpc
    /\ j.method = c.method
    /\ j.id = c.id
    /\ ("params" \in DOMAIN j) = c.params.some
    /\ c.params.some => j.params = c.params.array

\* The Output o is the reply item j.
SameOutput(o, j) ==
    /\ o.id = j.id
    /\ IF "error" \in DOMAIN j
       THEN o.kind = "Failure" /\ o.error = j.error
       ELSE o.kind = "Success" /\ o.result = j.result

\* C4: the payload execute_batch hands to the HTTP client for a non-empty
\* sequence of calls is the array of exactly these calls, each once,
\* unmodified, in the order submitted.
C4_BatchPayloadInOrder ==
    \A t \in Tasks :
        (op[t].kind = "execute_batch" /\ Len(op[t].calls) >= 1) =>
            /\ Len(sent[t]) >= 1
            /\ \A k \in 1..Len(sent[t]) :
                  /\ sent[t][k].shape = "array"
                  /\ Len(sent[t][k].items) = Len(op[t].calls)
                  /\ \A i \in 1..Len(op[t].calls) :
                        SameCall(sent[t][k].items[i], op[t].calls[i])

\* A batch of two different calls, submitted with the later identifier first,
\* has been sent and answered.
C4_Witness ==
    \E t \in Tasks :
        /\ op[t].kind = "execute_batch"
        /\ Len(op[t].calls) = 2
        /\ U64Lt(op[t].calls[2].id.num, op[t].calls[1].id.num)
        /\ op[t].calls[1].method # op[t].calls[2].method
        /\ pc[t] = "body"

\* C5 as stated: a successful execute returns the Single variant and a
\* successful execute_batch the Batch variant, whatever well-formed reply the
\* server sends.
C5_VariantMatchesOperation ==
    \A t \in Tasks :
        (Completed(t) /\ result[t].tag = "Ok") =>
            result[t].response.variant =
                (IF op[t].kind = "execute" THEN "Single" ELSE "Batch")

\* C5: a successful Response has the variant of the reply's outer shape,
\* Single for an object and Batch for an array; so it matches the operation
\* whenever the server answers a single request with an object and a batch
\* with an array.
C5_VariantMatchesReply ==
    \A t \in Tasks :
        (Completed(t) /\ result[t].tag = "Ok") =>
            /\ result[t].response.variant =
                  (IF net[t].shape = "object" THEN "Single" ELSE "Batch")
            /\ net[t].shape = sent[t][1].shape =>
                  result[t].response.variant =
                      (IF op[t].kind = "execute" THEN "Single" ELSE "Batch")

\* One caller's execute returned Single for an object, the other's
\* execute_batch returned Batch for an array of two.
C5_Witness ==
    \E t, u \in Tasks :
        /\ Completed(t) /\ op[t].kind = "execute"
        /\ result[t].tag = "Ok" /\ result[t].response.variant = "Single"
        /\ Completed(u) /\ op[u].kind = "execute_batch"
        /\ result[u].tag = "Ok" /\ result[u].response.variant = "Batch"
        /\ Len(result[u].response.outputs) = 2

\* C6: a failed send or an undecodable reply makes the whole call return an
\* error that carries no Output at all; the error tells which of the two
\* happened, and neither is a successful Response.
C6_ErrorsAbortTheCall ==
    \A t \in Tasks :
        Completed(t) =>
            /\ ~ReplyArrived(t) => result[t].tag = "Err" /\ result[t].error = "Transport"
            /\ (ReplyArrived(t) /\ ~WellFormed(net[t])) =>
                  result[t].tag = "Err" /\ result[t].error = "Decode"
            /\ result[t].tag = "Err" =>
                  /\ DOMAIN result[t] = {"tag", "error"}
                  /\ (result[t].error = "Transport") = ~ReplyArrived(t)
                  /\ (result[t].error = "Decode") = ReplyArrived(t)

\* A batch of two whose reply has one good and one bad item returned a decode
\* error, and another call returned a transport error.
C6_Witness ==
    \E t, u \in Tasks :
        /\ Completed(t) /\ op[t].kind = "execute_batch" /\ Len(op[t].calls) = 2
        /\ served[t] = "bad_item" /\ result[t] = Err("Decode")
        /\ Completed(u) /\ result[u] = Err("Transport")

\* C7: a well-formed reply that contains JSON-RPC error objects makes the
\* call return successfully, with every item of the reply, failed or not,
\* delivered as an Output.
C7_ProtocolErrorsAreData ==
    \A t \in Tasks :
        (/\ Completed(t) /\ ReplyArrived(t) /\ WellFormed(net[t])
         /\ \E i \in 1..Len(net[t].items) : "error" \in DOMAIN net[t].items[i]) =>
            /\ result[t].tag = "Ok"
            /\ Len(result[t].response.outputs) = Len(net[t].items)
            /\ \A i \in 1..Len(net[t].items) :
                  SameOutput(result[t].response.outputs[i], net[t].items[i])

\* A batch of two returned a failed Output next to a successful one.
C7_Witness ==
    \E t \in Tasks :
        /\ Completed(t) /\ op[t].kind = "execute_batch"
        /\ result[t].tag = "Ok"
        /\ Len(result[t].response.outputs) = 2
        /\ result[t].response.outputs[1].kind = "Failure"
        /\ result[t].response.outputs[2].kind = "Success"

\* C8: a reply that is neither a JSON-RPC object nor an array of them makes
\* execute and execute_batch return a decode error, never a success.
C8_MalformedReplyIsDecodeError ==
    \A t \in Tasks :
        (Completed(t) /\ ReplyArrived(t) /\ ~WellFormed(net[t])) =>
            /\ result[t] = Err("Decode")
            /\ result[t].tag # "Ok"

\* An execute and an execute_batch were both answered with a malformed body.
C8_Witness ==
    \E t, u \in Tasks :
        /\ Completed(t) /\ op[t].kind = "execute" /\ net[t] = JunkBody
        /\ Completed(u) /\ op[u].kind = "execute_batch" /\ net[u] = JunkBody
        /\ result[t] = Err("Decode") /\ result[u] = Err("Decode")

\* C9: when the server echoes the identifier of the request it received,
\* the Output execute returns carries the identifier of the call passed to
\* that execute, also while other callers' round trips are under way.
C9_EchoedIdentifierMatches ==
    \A t \in Tasks :
        (Completed(t) /\ op[t].kind = "execute" /\ served[t] = "echo") =>
            /\ result[t].tag = "Ok"
            /\ result[t].response.variant = "Single"
            /\ result[t].response.outputs[1].kind = "Success"
            /\ result[t].response.outputs[1].id = op[t].calls[1].id
            /\ result[t].response.outputs[1].result = ResultOf(op[t].calls[1].method)

\* One caller's execute returned while another caller's execute of a
\* different call was waiting for its reply body.
C9_Witness ==
    \E t, u \in Tasks :
        /\ t # u
        /\ Completed(t) /\ op[t].kind = "execute" /\ served[t] = "echo"
        /\ result[t].tag = "Ok"
        /\ pc[u] = "body" /\ op[u].kind = "execute" /\ served[u] = "echo"
        /\ op[u].calls[1].id # op[t].calls[1].id

\* C10: every execute or execute_batch call hands exactly one message to the
\* HTTP client, whether it ends in success or in an error; nothing else
\* sends.
C10_ExactlyOneMessage ==
    \A t \in Tasks :
        Len(sent[t]) = (IF op[t].kind = "none" THEN 0 ELSE 1)

\* One call ended in a transport error and another in a decode error, each
\* after one message.
C10_Witness ==
    \E t, u \in Tasks :
        /\ Completed(t) /\ result[t] = Err("Transport") /\ Len(sent[t]) = 1
        /\ Completed(u) /\ result[u] = Err("Decode") /\ Len(sent[u]) = 1

(***************************************************************************)
(* Properties of concurrent callers.                                       *)
(***************************************************************************)
\* C11: while one caller's round trip is pending, every other caller can
\* still prepare, can start execute and execute_batch, can be answered and
\* can return once its own reply has arrived.
C11_PendingDoesNotBlock ==
    \A t, u \in Tasks :
        (t # u /\ pc[t] # "idle") =>
            /\ (pc[u] = "idle" /\ TotalPrepared < MaxPrepares) =>
                  \A in \in PrepareInputs : ENABLED prepare(u, in[1], in[2])
            /\ (pc[u] = "idle" /\ nops < MaxOps) =>
                  /\ \A c \in Range(prepared[u]) : ENABLED execute(u, c)
                  /\ \A b \in BatchesOf(prepared[u]) : ENABLED execute_batch(u, b)
            /\ pc[u] = "send" => ENABLED ServerReplies(u, "echo")
            /\ pc[u] = "body" => ENABLED ReceiveReply(u)

\* One caller's execute is still waiting to be answered while another
\* caller's execute of a call prepared later has returned successfully.
C11_Witness ==
    \E t, u \in Tasks :
        /\ t # u
        /\ pc[t] = "send" /\ op[t].kind = "execute"
        /\ Completed(u) /\ op[u].kind = "execute" /\ result[u].tag = "Ok"
        /\ U64Lt(op[t].calls[1].id.num, op[u].calls[1].id.num)

(***************************************************************************)
(* Properties of the calls prepare builds.                                 *)
(***************************************************************************)
\* C12: for every method, prepare(method, None) returns a call without
\* params, serialized without a params key, and prepare(method, Some(p)) a
\* call whose params are exactly p, also for the empty list; the call has
\* version 2.0 and the method given.
C12_ParamsKept ==
    [][\A t \in Tasks, in \in AllPrepareInputs :
          prepare(t, in[1], in[2]) =>
              LET c == prepared'[t][Len(prepared'[t])]
                  j == CallToJson(c)
              IN  /\ c.jsonrpc = "2.0" /\ j.jsonrpc = "2.0"
                  /\ c.method = in[1] /\ j.method = in[1]
                  /\ c.params = in[2]
                  /\ in[2] = NoParams => "params" \notin DOMAIN j
                  /\ in[2] # NoParams =>
                        "params" \in DOMAIN j /\ j.params = in[2].array]_vars

\* One caller holds two calls of the same method, one prepared without
\* parameters and one with the empty list, and only the second has the
\* params key.
C12_Witness ==
    \E t \in Tasks : \E i, k \in 1..Len(prepared[t]) :
        /\ prepared[t][i].method = prepared[t][k].method
        /\ prepared[t][i].params = NoParams
        /\ prepared[t][k].params = SomeParams(<<>>)
        /\ "params" \notin DOMAIN CallToJson(prepared[t][i])
        /\ "params" \in DOMAIN CallToJson(prepared[t][k])

(***************************************************************************)
(* Properties of the batch payload.                                        *)
(***************************************************************************)
\* C13 as stated: whatever iterable execute_batch is given, the batch it
\* hands to the HTTP client is not empty.
C13_NoEmptyBatchSent ==
    \A t \in Tasks :
        op[t].kind = "execute_batch" =>
            \A k \in 1..Len(sent[t]) : sent[t][k].items # <<>>

\* C13: the batch execute_batch hands to the HTTP client is non-empty
\* whenever the iterable given is non-empty, and it is the empty array when
\* the iterable is empty.
C13_BatchEmptyOnlyIfGivenEmpty ==
    \A t \in Tasks :
        op[t].kind = "execute_batch" =>
            /\ Len(sent[t]) >= 1
            /\ \A k \in 1..Len(sent[t]) :
                  /\ sent[t][k].shape = "array"
                  /\ (sent[t][k].items = <<>>) = (op[t].calls = <<>>)

\* One caller's execute_batch of no calls has sent the empty array and been
\* answered, another caller's execute_batch of one call has sent one item.
C13_Witness ==
    \E t, u \in Tasks :
        /\ op[t].kind = "execute_batch" /\ op[t].calls = <<>>
        /\ sent[t] = <<[shape |-> "array", items |-> <<>>]>>
        /\ pc[t] = "body"
        /\ op[u].kind = "execute_batch" /\ Len(op[u].calls) = 1
        /\ Len(sent[u][1].items) = 1

(***************************************************************************)
(* Properties of the batch result.                                         *)
(***************************************************************************)
\* C16: a successful execute_batch returns the Outputs of the reply, each
\* once and in the order of the reply, whatever the order of the submitted
\* calls and whether or not an Output carries an identifier.
C16_OutputsAsReplied ==
    \A t \in Tasks :
        (Completed(t) /\ op[t].kind = "execute_batch" /\ result[t].tag = "Ok") =>
            /\ ReplyArrived(t)
            /\ Len(result[t].response.outputs) = Len(net[t].items)
            /\ \A i \in 1..Len(net[t].items) :
                  SameOutput(result[t].response.outputs[i], net[t].items[i])

\* One batch of two was answered in reverse order and returned so; another
\* batch was answered with an error without identifier, returned in place.
C16_Witness ==
    \E t, u \in Tasks :
        /\ Completed(t) /\ op[t].kind = "execute_batch" /\ Len(op[t].calls) = 2
        /\ served[t] = "reversed" /\ result[t].tag = "Ok"
        /\ result[t].response.outputs[1].id = op[t].calls[2].id
        /\ result[t].response.outputs[2].id = op[t].calls[1].id
        /\ U64Lt(op[t].calls[1].id.num, op[t].calls[2].id.num)
        /\ Completed(u) /\ op[u].kind = "execute_batch"
        /\ served[u] = "unparsed_item" /\ result[u].tag = "Ok"
        /\ result[u].response.outputs[1].id = IdNull

(***************************************************************************)
(* Properties of one caller's identifiers.                                 *)
(***************************************************************************)
\* C19: the calls one caller prepares one after the other carry strictly
\* increasing identifiers, whatever prepare calls of other callers come in
\* between, as long as the counter has not wrapped.
C19_PerCallerIncreasing ==
    \A t \in Tasks : \A i, k \in 1..Len(prepared[t]) :
        i < k => U64Lt(prepared[t][i].id.num, prepared[t][k].id.num)

\* A caller prepared twice with another caller's prepare in between: its
\* identifiers are 1 and 3, increasing and not consecutive, and it has
\* submitted the two calls as a batch in that order.
C19_Witness ==
    \E t \in Tasks :
        /\ Len(prepared[t]) = 2
        /\ prepared[t][1].id = IdNum(U64One)
        /\ prepared[t][2].id = IdNum(U64FromNat(3))
        /\ op[t].kind = "execute_batch"
        /\ op[t].calls = prepared[t]

(***************************************************************************)
(* C14.  basic_auth(username, password) sets the Authorization header to   *)
(* "Basic " followed by the base64 encoding of the username, a colon and   *)
(* the password; without a password the encoded text is the username and   *)
(* the colon, and an empty username still gives the colon and the          *)
(* password.  The three headers of the repository's test are among the     *)
(* cases.                                                                  *)
(***************************************************************************)
C14_BasicAuthHeader ==
    [][\A u \in Usernames, p \in Passwords :
        CallBasicAuth(u, p) =>
            LET h == HeaderValue(builder'.config.headers, "authorization")
                text == u \o <<":">> \o (IF p.some THEN p.value ELSE <<>>)
            IN  /\ h = Some(<<"B", "a", "s", "i", "c", " ">> \o base64_encode(text))
                /\ (u = <<"u", "s", "e", "r", "n", "a", "m", "e">>
                    /\ p = Some(<<"p", "a", "s", "s", "w", "o", "r", "d">>)) =>
                      h = Some(<<"B", "a", "s", "i", "c", " ", "d", "X", "N", "l", "c",
                               "m", "5", "h", "b", "W", "U", "6", "c", "G", "F", "z",
                               "c", "3", "d", "v", "c", "m", "Q", "=">>)
                /\ (u = <<"u", "s", "e", "r", "n", "a", "m", "e">> /\ p = None) =>
                      h = Some(<<"B", "a", "s", "i", "c", " ", "d", "X", "N", "l", "c",
                               "m", "5", "h", "b", "W", "U", "6">>)
                /\ (u = <<>>
                    /\ p = Some(<<"p", "a", "s", "s", "w", "o", "r", "d">>)) =>
                      h = Some(<<"B", "a", "s", "i", "c", " ", "O", "n", "B", "h", "c",
                               "3", "N", "3", "b", "3", "J", "k">>)
      ]_vars

\* basic_auth was called with a username and no password, and the header is
\* the one the test expects.
C14_Witness ==
    /\ "basic_auth" \in builder.called
    /\ HeaderValue(builder.config.headers, "authorization") =
           Some(<<"B", "a", "s", "i", "c", " ", "d", "X", "N", "l", "c",
                    "m", "5", "h", "b", "W", "U", "6">>)

(***************************************************************************)
(* C15.  The tcp_nodelay option defaults to true: a transport built from a *)
(* builder on which tcp_nodelay was never called has handed true to the    *)
(* network client.                                                         *)
(***************************************************************************)
C15_NodelayDefaultsTrue ==
    (builder.consumed /\ "tcp_nodelay" \notin builder.called) =>
        client.tcp_nodelay = TRUE

(***************************************************************************)
(* C17.  Frame of the operations: every step of execute and execute_batch, *)
(* from the call to its success or failure, leaves the identifier counter  *)
(* unchanged; prepare changes the counter by exactly one and causes no     *)
(* network send; no operation changes the transport's url.                 *)
(***************************************************************************)
C17_Frame ==
    [][/\ url' = url
       /\ \A t \in Tasks :
            (\/ \E c \in Range(prepared[t]) : execute(t, c)
             \/ \E b \in BatchesOf(prepared[t]) : execute_batch(t, b)
             \/ SendFails(t)
             \/ \E behaviour \in ServerBehaviours : ServerReplies(t, behaviour)
             \/ ReceiveReply(t)
             \/ ReceiveFails(t)) => id' = id
       /\ \A t \in Tasks, in \in PrepareInputs :
            prepare(t, in[1], in[2]) =>
                /\ id' = WrappingAdd(id, 1)
                /\ id' # id
                /\ sent' = sent
                /\ net' = net
                /\ pc' = pc
      ]_vars

\* Two calls prepared, one call failed and one succeeded: the counter is at
\* 3 and the url is the one the transport was built with.
C17_Witness ==
    /\ TotalPrepared = 2
    /\ id = U64FromNat(3)
    /\ url = TestUrl
    /\ \E t, u \in Tasks :
        /\ Completed(t) /\ result[t].tag = "Err"
        /\ Completed(u) /\ result[u].tag = "Ok"

(***************************************************************************)
(* C18.  Clones of a transport share one identifier counter: whatever the  *)
(* interleaving of prepare calls over a transport and its clones, the      *)
(* identifiers issued are pairwise distinct; two transports built          *)
(* separately have counters of their own, each started at 1, so the        *)
(* identifiers issued over a transport and its clones are 1..n whatever    *)
(* the other transports did.                                               *)
(***************************************************************************)
IdsOf(r) ==
    {handles[p[1]].calls[p[2]].id : p \in {q \in IssuedOn : handles[q[1]].root = r}}

C18_ClonesShareCounter ==
    /\ \A p, q \in IssuedOn :
          (handles[p[1]].root = handles[q[1]].root /\ p # q) =>
              handles[p[1]].calls[p[2]].id # handles[q[1]].calls[q[2]].id
    /\ \A h, k \in DOMAIN handles :
          (handles[h].root = handles[k].root) <=> (handles[h].id = handles[k].id)
    /\ \A h \in DOMAIN handles :
          LET n == Cardinality({q \in IssuedOn : handles[q[1]].root = handles[h].root})
          IN  IdsOf(handles[h].root) = {IdNum(U64FromNat(k)) : k \in 1..n}

\* A transport and its clone have each prepared a call, the clone first, and
\* a transport built separately has prepared one: identifiers 2 and 1 on the
\* one side, 1 on the other.
C18_Witness ==
    \E h, k, o \in DOMAIN handles :
        /\ h # k /\ handles[h].root = h /\ handles[k].root = h
        /\ handles[o].root = o /\ o # h
        /\ Len(handles[h].calls) = 1 /\ handles[h].calls[1].id = IdNum(U64FromNat(2))
        /\ Len(handles[k].calls) = 1 /\ handles[k].calls[1].id = IdNum(U64One)
        /\ Len(handles[o].calls) = 1 /\ handles[o].calls[1].id = IdNum(U64One)

====
